---- MODULE Spec2Model ----
(***************************************************************************)
(* shelf_track.py: a menu-driven book / author inventory over two SQLite   *)
(* tables.  The program is single threaded and blocks only in input(); one *)
(* action of this module is the code that runs between two input() calls:  *)
(* it consumes one line typed by the user and runs up to the next prompt.  *)
(*                                                                         *)
(* A text is a string; a character outside ASCII is written as the six      *)
(* characters of its code point, backslash u and four hex digits, and      *)
(* counts as one character:                                                *)
(*   U+0660..U+0669  ARABIC-INDIC DIGIT ZERO..NINE (class Nd)              *)
(*   U+00B2          SUPERSCRIPT TWO (class No, Numeric_Type=Digit)        *)
(*   U+00A0          NO-BREAK SPACE (class Zs, whitespace)                 *)
(***************************************************************************)
EXTENDS Integers, Sequences, FiniteSets

\* A session issues at most this many committed writes (the counter
\* `commits` is capped in the menu's guard).
MaxCommits == 2

----------------------------------------------------------------------------
\* Characters and the Python string built-ins the code calls.

\* The characters of a text, in order.
RECURSIVE chars(_)
chars(s) ==
    IF s = "" THEN <<>>
    ELSE IF SubSeq(s, 1, 1) = "\\" THEN <<SubSeq(s, 1, 6)>> \o chars(SubSeq(s, 7, Len(s)))
    ELSE <<SubSeq(s, 1, 1)>> \o chars(SubSeq(s, 2, Len(s)))

\* The text made of the characters `cs`.
RECURSIVE text(_)
text(cs) == IF cs = <<>> THEN "" ELSE cs[1] \o text(Tail(cs))

Range(cs) == {cs[i] : i \in 1..Len(cs)}
IndexOf(cs, c) == CHOOSE i \in 1..Len(cs) : cs[i] = c

Lowers == chars("abcdefghijklmnopqrstuvwxyz")
Uppers == chars("ABCDEFGHIJKLMNOPQRSTUVWXYZ")
AsciiDigits == chars("0123456789")
ArabicIndicDigits ==
    chars("\\u0660\\u0661\\u0662\\u0663\\u0664\\u0665\\u0666\\u0667\\u0668\\u0669")

\* Characters str.isspace() holds of: SPACE and U+00A0 NO-BREAK SPACE.
Whitespace == {" ", "\\u00a0"}
\* Characters of Unicode class Nd: str.isdigit() holds and int() reads them.
DecimalChars == Range(AsciiDigits) \cup Range(ArabicIndicDigits)
\* Characters with Numeric_Type=Digit that are not decimal: str.isdigit()
\* holds, int() raises ValueError.
NonDecimalDigitChars == {"\\u00b2"}

DigitValue(c) ==
    IF c \in Range(AsciiDigits) THEN IndexOf(AsciiDigits, c) - 1
    ELSE IndexOf(ArabicIndicDigits, c) - 1

lower_char(c) == IF c \in Range(Uppers) THEN Lowers[IndexOf(Uppers, c)] ELSE c
upper_char(c) == IF c \in Range(Lowers) THEN Uppers[IndexOf(Lowers, c)] ELSE c
is_cased(c) == c \in Range(Lowers) \cup Range(Uppers)

\* len(s)
len(s) == Len(chars(s))

\* The call of .strip() left out.
strip_none(s) == s
\* str.strip(): leading and trailing whitespace removed.
strip(s) ==
    LET cs == chars(s)
        keep == {i \in 1..Len(cs) : cs[i] \notin Whitespace}
    IN  IF keep = {} THEN ""
        ELSE LET lo == CHOOSE i \in keep : \A j \in keep : i <= j
                 hi == CHOOSE i \in keep : \A j \in keep : i >= j
             IN  text(SubSeq(cs, lo, hi))

\* str.lower()
lower(s) ==
    LET cs == chars(s)
    IN  text([i \in 1..Len(cs) |-> lower_char(cs[i])])

\* str.title(): a cased character is upper-cased when it starts a run of
\* cased characters and lower-cased inside the run.
title(s) ==
    LET cs == chars(s)
    IN  text([i \in 1..Len(cs) |->
                IF i > 1 /\ is_cased(cs[i-1]) THEN lower_char(cs[i])
                ELSE upper_char(cs[i])])

\* str.isdigit(): non-empty and every character a digit (decimal or not).
isdigit(s) ==
    LET cs == chars(s)
    IN  /\ Len(cs) > 0
        /\ \A i \in 1..Len(cs) : cs[i] \in DecimalChars \cup NonDecimalDigitChars

\* int(s) on a stripped text: an optional sign, then decimal digits, single
\* underscores allowed between digits.  Anything else raises ValueError.
int_body(s) ==
    LET cs == chars(s)
    IN  IF Len(cs) > 0 /\ cs[1] \in {"+", "-"} THEN Tail(cs) ELSE cs

int_raises(s) ==
    LET b == int_body(s)
    IN  ~ /\ Len(b) > 0
          /\ \A i \in 1..Len(b) :
                \/ b[i] \in DecimalChars
                \/ /\ b[i] = "_"
                   /\ i > 1 /\ i < Len(b)
                   /\ b[i-1] # "_" /\ b[i+1] # "_"

RECURSIVE magnitude(_)
magnitude(d) ==
    IF d = <<>> THEN 0
    ELSE 10 * magnitude(SubSeq(d, 1, Len(d) - 1)) + DigitValue(d[Len(d)])

int(s) ==
    LET d == SelectSeq(int_body(s), LAMBDA c : c # "_")
    IN  IF SubSeq(s, 1, 1) = "-" THEN 0 - magnitude(d) ELSE magnitude(d)

\* cancel_operation(user_input): the cancellation sentinel, any case.
cancel_operation(user_input) == lower(user_input) = "x"

----------------------------------------------------------------------------
\* The sample rows insert_sample_data() writes on the first start.

book_data ==
    { [id |-> 3001, title |-> "A Tale of Two Cities",
       authorID |-> 1290, qty |-> 30],
      [id |-> 3002, title |-> "Harry Potter and the Philosopher's Stone",
       authorID |-> 8937, qty |-> 40],
      [id |-> 3003, title |-> "The Lion, the Witch and the Wardrobe",
       authorID |-> 2356, qty |-> 25],
      [id |-> 3004, title |-> "The Lord of the Rings",
       authorID |-> 6380, qty |-> 37],
      [id |-> 3005, title |-> "Alice's Adventures in Wonderland",
       authorID |-> 5620, qty |-> 12] }

author_data ==
    { [id |-> 1290, name |-> "Charles Dickens",
       country |-> "England"],
      [id |-> 8937, name |-> "J.K. Rowling",
       country |-> "England"],
      [id |-> 2356, name |-> "C.S. Lewis",
       country |-> "Ireland"],
      [id |-> 6380, name |-> "J.R.R. Tolkien",
       country |-> "South Africa"],
      [id |-> 5620, name |-> "Lewis Carroll",
       country |-> "England"] }

----------------------------------------------------------------------------
\* The lines the user may type at each kind of prompt.

CancelLines == { "x", "X" }
BlankLines == { "", " ", " \\u00a0" }

MenuLines == { "0", "1", "2", "3", "4", "5", "9" }

KindLines ==
    CancelLines \cup
    { "", "book", "Author", "cd" }

\* Book ids: a seeded book, a fresh id with leading zeros, the same seeded id
\* padded and in Arabic-Indic digits, and ill-formed ids.
BookIdLines ==
    CancelLines \cup
    { "",
      "3001",
      "0012",
      " 3001",
      "\\u0663\\u0660\\u0660\\u0661",
      "300\\u00b2",
      "30a1",
      "300",
      "30010" }

\* Author ids: two seeded authors, a fresh id, and ill-formed ids.
AuthorIdLines ==
    CancelLines \cup
    { "",
      "1290",
      "8937",
      "0000",
      "\\u0661\\u0662\\u0669\\u0660",
      "129\\u00b2",
      "-129",
      "129" }

TitleLines == CancelLines \cup BlankLines \cup { "Dune" }

QtyLines ==
    CancelLines \cup
    { "", "0", "7", "-5", "abc", "7.5" }

NameLines == CancelLines \cup BlankLines \cup { "ann lee" }
CountryLines == CancelLines \cup BlankLines \cup { "peru" }

FieldLines ==
    CancelLines \cup
    { "", "qty", "title",
      "authorID", "author",
      "id" }

ConfirmLines ==
    CancelLines \cup
    { "", "yes", "YES", "no", "y" }

SearchByLines ==
    CancelLines \cup
    { "", "id", "Title", "qty" }

SearchTitleLines ==
    CancelLines \cup BlankLines \cup
    { "tale", "Dune", "the ", "%", "_ord" }

----------------------------------------------------------------------------
\* State.

VARIABLES
    books,        \* table book: a set of rows [id, title, authorID, qty]
    authors,      \* table author: a set of rows [id, name, country]
    pc,           \* the input() call the program is blocked in
    frame,        \* local variables of the running workflow function
    inp,          \* the line last read by input()
    out,          \* what the code printed while handling that line
    shown,        \* the rows the code printed while handling that line
    commits,      \* number of db.commit() calls made by workflows
    entry         \* the tables as they were when the running workflow began

vars == <<books, authors, pc, frame, inp, out, shown, commits, entry>>

\* A local variable that has not been assigned.
NoId == -1
Unset == "<unset>"

\* fetchone() returned None.
NoBook == [id |-> NoId, title |-> Unset, authorID |-> NoId, qty |-> NoId]
NoAuthor == [id |-> NoId, name |-> Unset, country |-> Unset]

NoFrame ==
    [book_id |-> NoId, author_id |-> NoId, title |-> Unset, name |-> Unset,
     book |-> NoBook, author |-> NoAuthor, new_name |-> Unset]

Init ==
    /\ books = book_data
    /\ authors = author_data
    /\ pc = "menu"
    /\ frame = NoFrame
    /\ inp = ""
    /\ out = <<"Books added", "Authors added">>
    /\ shown = {}
    /\ commits = 0
    /\ entry = [books |-> book_data, authors |-> author_data]

----------------------------------------------------------------------------
\* SQL statements.

\* SELECT * FROM book with the key compared by >= instead of =.
select_book_from(id) == {b \in books : b.id >= id}
\* SELECT * FROM book WHERE id = ?
select_book(id) == {b \in books : b.id = id}
\* SELECT * FROM author WHERE id = ?
select_author(id) == {a \in authors : a.id = id}
\* SELECT * FROM book WHERE authorID = ?
select_books_of(author_id) == {b \in books : b.authorID = author_id}
\* cursor.fetchone(): a row of the result, or None when it is empty.
fetchone(result, none) == IF result = {} THEN {none} ELSE result
\* INSERT OR IGNORE: a present id is skipped and nothing is raised.
primary_key_violation_ignored(table, id) == FALSE
\* id INTEGER PRIMARY KEY: an INSERT of a present id raises IntegrityError.
primary_key_violation(table, id) == \E r \in table : r.id = id

\* UPDATE book SET qty = ? with the WHERE clause left out.
update_qty_everywhere(new_qty, book_id) == {[b EXCEPT !.qty = new_qty] : b \in books}
\* UPDATE book SET qty = ? WHERE id = ?
update_qty(new_qty, book_id) ==
    {IF b.id = book_id THEN [b EXCEPT !.qty = new_qty] ELSE b : b \in books}
\* UPDATE book SET title = ? WHERE id = ?
update_title(new_title, book_id) ==
    {IF b.id = book_id THEN [b EXCEPT !.title = new_title] ELSE b : b \in books}
\* UPDATE book SET authorID = ? WHERE id = ?
update_authorID(new_author_id, book_id) ==
    {IF b.id = book_id THEN [b EXCEPT !.authorID = new_author_id] ELSE b : b \in books}
\* UPDATE author SET name = ?, country = ? with the WHERE clause left out.
update_author_everywhere(new_name, new_country, author_id) ==
    {[a EXCEPT !.name = new_name, !.country = new_country] : a \in authors}
\* UPDATE author SET name = ?, country = ? WHERE id = ?
update_author(new_name, new_country, author_id) ==
    {IF a.id = author_id THEN [a EXCEPT !.name = new_name, !.country = new_country]
     ELSE a : a \in authors}
\* DELETE FROM book with the WHERE clause left out.
delete_book_row_all(book_id) == {}
\* DELETE FROM book WHERE id = ?
delete_book_row(book_id) == {b \in books : b.id # book_id}
\* DELETE FROM author with the comparison turned round.
delete_author_row_inverted(author_id) == {a \in authors : a.id = author_id}
\* DELETE FROM author WHERE id = ?
delete_author_row(author_id) == {a \in authors : a.id # author_id}

----------------------------------------------------------------------------
\* Control: where the code goes after handling a line.

\* Run on to the input() call `p` with locals `f`, having printed `msgs`
\* and the rows `rows`.
Show(p, f, msgs, rows) == pc' = p /\ frame' = f /\ out' = msgs /\ shown' = rows
Goto(p, f, msgs) == Show(p, f, msgs, {})
\* return to main_menu's loop, which prompts again.
Return(msgs) == Goto("menu", NoFrame, msgs)
\* An exception nothing catches: the traceback ends the process.
Raise(exc) == Goto("crashed", NoFrame, <<exc>>)
\* No statement changed a table.
NoWrite == UNCHANGED <<books, authors, commits>>
\* The return after commit_and_print left out: the enclosing prompt loop
\* goes round again.
commit_and_print_no_return(new_books, new_authors, message) ==
    /\ books' = new_books
    /\ authors' = new_authors
    /\ commits' = commits + 1
    /\ Goto(pc, frame, <<message>>)
\* cursor.execute(<write>) then commit_and_print(db, message) then return.
commit_and_print(new_books, new_authors, message) ==
    /\ books' = new_books
    /\ authors' = new_authors
    /\ commits' = commits + 1
    /\ Return(<<message>>)

\* The 4-digit test every id prompt applies to the stripped line.
four_digits(s) == isdigit(s) /\ len(s) = 4

----------------------------------------------------------------------------
\* main_menu

\* The join written without its ON condition.
inner_join_unconditioned ==
    {[book |-> b, author |-> a] : b \in books, a \in authors}
\* SELECT book.title, author.name, author.country
\* FROM book INNER JOIN author ON book.authorID = author.id
inner_join ==
    UNION {{[book |-> b, author |-> a] : a \in select_author(b.authorID)} : b \in books}

main_menu(line) ==
    /\ pc = "menu"
    /\ inp' = line
    /\ LET menu == strip(line)
       IN  IF menu = "1" THEN
               /\ commits < MaxCommits
               /\ Goto("add_kind", NoFrame, <<>>)
           ELSE IF menu = "2" THEN
               /\ commits < MaxCommits
               /\ Goto("update_book_id", NoFrame, <<>>)
           ELSE IF menu = "3" THEN
               /\ commits < MaxCommits
               /\ Goto("delete_kind", NoFrame, <<>>)
           ELSE IF menu = "4" THEN
               Goto("search_by", NoFrame, <<>>)
           ELSE IF menu = "5" THEN
               Show("menu", NoFrame, <<"Details">>, inner_join)
           ELSE IF menu = "0" THEN
               Goto("exit", NoFrame, <<"Goodbye!!!">>)
           ELSE
               Goto("menu", NoFrame, <<"Invalid option.">>)
    /\ entry' = [books |-> books, authors |-> authors]
    /\ NoWrite

----------------------------------------------------------------------------
\* add_book_or_author

add_kind(line) ==
    /\ pc = "add_kind"
    /\ inp' = line
    /\ LET choice == lower(strip(line))
       IN  IF cancel_operation(choice) THEN
               Return(<<"Operation cancelled.">>)
           ELSE IF choice = "book" THEN
               Goto("add_book_id", frame, <<>>)
           ELSE IF choice = "author" THEN
               Goto("add_author_id", frame, <<>>)
           ELSE
               Goto(pc, frame, <<"Invalid input. Please type 'book', 'author', or 'x' to cancel.">>)
    /\ NoWrite
    /\ UNCHANGED entry

\* The duplicate check run against the author table.
book_id_taken_in_author(book_id) == select_author(book_id) # {}
\* if cursor.fetchone(): the new book id is taken.
book_id_taken(book_id) == select_book(book_id) # {}

add_book_id(line) ==
    /\ pc = "add_book_id"
    /\ inp' = line
    /\ LET book_id_input == strip(line)
       IN  IF cancel_operation(book_id_input) THEN
               Return(<<"Operation cancelled.">>)
           ELSE IF ~four_digits(book_id_input) THEN
               Goto(pc, frame, <<"Book ID must be a numeric value with exactly 4 digits.">>)
           ELSE IF int_raises(book_id_input) THEN
               Raise("ValueError")
           ELSE
               LET book_id == int(book_id_input)
                   f == [frame EXCEPT !.book_id = book_id]
               IN  IF book_id_taken(book_id) THEN
                       Goto(pc, f, <<"A book with that ID already exists. Please enter a different ID.">>)
                   ELSE
                       Goto("add_book_title", f, <<>>)
    /\ NoWrite
    /\ UNCHANGED entry

add_book_title(line) ==
    /\ pc = "add_book_title"
    /\ inp' = line
    /\ LET title_input == strip(line)
       IN  IF cancel_operation(title_input) THEN
               Return(<<"Operation cancelled.">>)
           ELSE IF title_input = "" THEN
               Return(<<"Book title is required.">>)
           ELSE
               Goto("add_book_author_id", [frame EXCEPT !.title = title_input], <<>>)
    /\ NoWrite
    /\ UNCHANGED entry

\* The lookup's result ignored: any well-formed id passes.
author_found_unchecked(author_id) == TRUE
\* if cursor.fetchone(): the author the new book names exists.
author_found(author_id) == select_author(author_id) # {}

add_book_author_id(line) ==
    /\ pc = "add_book_author_id"
    /\ inp' = line
    /\ LET author_id_input == strip(line)
       IN  IF cancel_operation(author_id_input) THEN
               Return(<<"Operation cancelled.">>)
           ELSE IF ~four_digits(author_id_input) THEN
               Goto(pc, frame, <<"Author ID must be a numeric value with exactly 4 digits.">>)
           ELSE IF int_raises(author_id_input) THEN
               Raise("ValueError")
           ELSE
               LET author_id == int(author_id_input)
                   f == [frame EXCEPT !.author_id = author_id]
               IN  IF author_found(author_id) THEN
                       Goto("add_book_qty", f, <<>>)
                   ELSE
                       Goto(pc, f, <<"No author found with that ID. Please enter a valid author ID.">>)
    /\ NoWrite
    /\ UNCHANGED entry

\* INSERT INTO book(id, title, authorID, qty) VALUES(?, ?, ?, ?), committed.
insert_book(row) ==
    IF primary_key_violation(books, row.id) THEN
        Raise("sqlite3.IntegrityError") /\ NoWrite
    ELSE
        commit_and_print(books \cup {row}, authors, "Book added successfully.")

\* if qty >= 0: break
qty_accepted(qty) == qty >= 0

add_book_qty(line) ==
    /\ pc = "add_book_qty"
    /\ inp' = line
    /\ LET qty_input == strip(line)
       IN  IF cancel_operation(qty_input) THEN
               Return(<<"Operation cancelled.">>) /\ NoWrite
           ELSE IF qty_input = "" THEN
               Goto(pc, frame, <<"Quantity is required.">>) /\ NoWrite
           ELSE IF int_raises(qty_input) THEN
               Goto(pc, frame, <<"Invalid input. Please enter a numeric quantity.">>) /\ NoWrite
           ELSE IF qty_accepted(int(qty_input)) THEN
               insert_book([id |-> frame.book_id, title |-> frame.title,
                            authorID |-> frame.author_id, qty |-> int(qty_input)])
           ELSE
               Goto(pc, frame, <<"Quantity cannot be negative.">>) /\ NoWrite
    /\ UNCHANGED entry

----------------------------------------------------------------------------
\* add_author

\* if cursor.fetchone(): the new author id is taken.
author_id_taken(author_id) == select_author(author_id) # {}

add_author_id(line) ==
    /\ pc = "add_author_id"
    /\ inp' = line
    /\ LET author_input == strip(line)
       IN  IF lower(author_input) = "x" THEN
               Return(<<"Operation cancelled.">>)
           ELSE IF ~four_digits(author_input) THEN
               Goto(pc, frame, <<"Author ID must be a numeric value with exactly 4 digits.">>)
           ELSE IF int_raises(author_input) THEN
               Raise("ValueError")
           ELSE
               LET author_id == int(author_input)
                   f == [frame EXCEPT !.author_id = author_id]
               IN  IF author_id_taken(author_id) THEN
                       Goto(pc, f, <<"An author with that ID already exists. Try another.">>)
                   ELSE
                       Goto("add_author_name", f, <<>>)
    /\ NoWrite
    /\ UNCHANGED entry

add_author_name(line) ==
    /\ pc = "add_author_name"
    /\ inp' = line
    /\ LET name == title(strip(line))
       IN  IF name = "" THEN
               Return(<<"Author name cannot be empty.">>)
           ELSE
               Goto("add_author_country", [frame EXCEPT !.name = name], <<>>)
    /\ NoWrite
    /\ UNCHANGED entry

\* INSERT INTO author(id, name, country) VALUES (?, ?, ?), committed.
insert_author(row) ==
    IF primary_key_violation(authors, row.id) THEN
        Raise("sqlite3.IntegrityError") /\ NoWrite
    ELSE
        commit_and_print(books, authors \cup {row}, "Author added successfully.")

add_author_country(line) ==
    /\ pc = "add_author_country"
    /\ inp' = line
    /\ LET country == title(strip(line))
       IN  IF country = "" THEN
               Return(<<"Author country cannot be empty.">>) /\ NoWrite
           ELSE
               insert_author([id |-> frame.author_id, name |-> frame.name,
                              country |-> country])
    /\ UNCHANGED entry

----------------------------------------------------------------------------
\* update_book

update_book_id(line) ==
    /\ pc = "update_book_id"
    /\ inp' = line
    /\ LET book_id_input == strip(line)
       IN  IF cancel_operation(book_id_input) THEN
               Return(<<"Operation cancelled.">>)
           ELSE IF book_id_input = "" THEN
               Goto(pc, frame, <<"Book ID is required.">>)
           ELSE IF ~four_digits(book_id_input) THEN
               Goto(pc, frame, <<"Book ID must be a 4-digit number.">>)
           ELSE IF int_raises(book_id_input) THEN
               Raise("ValueError")
           ELSE
               LET book_id == int(book_id_input)
               IN  \E book \in fetchone(select_book(book_id), NoBook) :
                       LET f == [frame EXCEPT !.book_id = book_id, !.book = book]
                       IN  IF book # NoBook THEN
                               Show("update_choice", f, <<"Current book details:">>, {book})
                           ELSE
                               Goto(pc, f, <<"No book found with that ID. Please try again.">>)
    /\ NoWrite
    /\ UNCHANGED entry

\* The default left out: a blank line is taken as it is.
default_choice_none(typed) == typed
\* if update_choice == "": update_choice = "qty"
default_choice(typed) == IF typed = "" THEN "qty" ELSE typed

update_choice(line) ==
    /\ pc = "update_choice"
    /\ inp' = line
    /\ LET typed == lower(strip(line))
           choice == default_choice(typed)
       IN  IF cancel_operation(typed) THEN
               Return(<<"Operation cancelled.">>)
           ELSE IF choice = "qty" THEN
               Goto("update_qty", frame, <<>>)
           ELSE IF choice = "title" THEN
               Goto("update_title", frame, <<>>)
           ELSE IF choice = "authorid" THEN
               Goto("update_authorID", frame, <<>>)
           ELSE IF choice = "author" THEN
               \E author \in fetchone(select_author(frame.book.authorID), NoAuthor) :
                   IF author # NoAuthor THEN
                       Show("update_author_name", [frame EXCEPT !.author = author],
                            <<"Current Author Name:", "Current Author Country:">>, {author})
                   ELSE
                       Goto(pc, [frame EXCEPT !.author = author],
                            <<"Author not found for this book.">>)
           ELSE
               Goto(pc, frame, <<"Invalid field. Please choose from: qty, title, authorID, or author.">>)
    /\ NoWrite
    /\ UNCHANGED entry

\* The sign test turned round.
new_qty_rejected_inverted(new_qty) == new_qty > 0
\* if new_qty < 0: print, continue
new_qty_rejected(new_qty) == new_qty < 0

update_qty_step(line) ==
    /\ pc = "update_qty"
    /\ inp' = line
    /\ LET new_qty_input == strip(line)
       IN  IF cancel_operation(new_qty_input) THEN
               Return(<<"Operation cancelled.">>) /\ NoWrite
           ELSE IF new_qty_input = "" THEN
               Goto(pc, frame, <<"Quantity is required.">>) /\ NoWrite
           ELSE IF int_raises(new_qty_input) THEN
               Goto(pc, frame, <<"Invalid quantity. Please enter a number.">>) /\ NoWrite
           ELSE IF new_qty_rejected(int(new_qty_input)) THEN
               Goto(pc, frame, <<"Quantity cannot be negative.">>) /\ NoWrite
           ELSE
               commit_and_print(update_qty(int(new_qty_input), frame.book_id), authors,
                                "Quantity updated successfully.")
    /\ UNCHANGED entry

update_title_step(line) ==
    /\ pc = "update_title"
    /\ inp' = line
    /\ LET new_title == strip(line)
       IN  IF cancel_operation(new_title) THEN
               Return(<<"Operation cancelled.">>) /\ NoWrite
           ELSE IF new_title = "" THEN
               Goto(pc, frame, <<"Title cannot be empty. Please try again.">>) /\ NoWrite
           ELSE
               commit_and_print(update_title(new_title, frame.book_id), authors,
                                "Title updated successfully.")
    /\ UNCHANGED entry

\* The existence check dropped: the update is issued for any well-formed id.
new_author_found_unchecked(new_author_id) == TRUE
\* if cursor.fetchone(): the author the book is moved to exists.
new_author_found(new_author_id) == select_author(new_author_id) # {}

update_authorID_step(line) ==
    /\ pc = "update_authorID"
    /\ inp' = line
    /\ LET new_author_id_input == strip(line)
       IN  IF cancel_operation(new_author_id_input) THEN
               Return(<<"Operation cancelled.">>) /\ NoWrite
           ELSE IF new_author_id_input = "" THEN
               Goto(pc, frame, <<"Author ID is required.">>) /\ NoWrite
           ELSE IF ~four_digits(new_author_id_input) THEN
               Goto(pc, frame, <<"Author ID must be a 4-digit number.">>) /\ NoWrite
           ELSE IF int_raises(new_author_id_input) THEN
               Raise("ValueError") /\ NoWrite
           ELSE
               LET new_author_id == int(new_author_id_input)
               IN  IF new_author_found(new_author_id) THEN
                       commit_and_print(update_authorID(new_author_id, frame.book_id), authors,
                                        "Book's author ID updated successfully.")
                   ELSE
                       /\ Goto(pc, [frame EXCEPT !.author_id = new_author_id],
                               <<"The author ID does not exist. Please enter an existing author ID.">>)
                       /\ NoWrite
    /\ UNCHANGED entry

update_author_name(line) ==
    /\ pc = "update_author_name"
    /\ inp' = line
    /\ LET new_name == strip(line)
       IN  IF cancel_operation(new_name) THEN
               Return(<<"Operation cancelled.">>)
           ELSE
               Goto("update_author_country", [frame EXCEPT !.new_name = new_name], <<>>)
    /\ NoWrite
    /\ UNCHANGED entry

\* The blank test left out: what was typed is stored as it is.
keep_current_dropped(typed, current) == typed
\* if new_name == "": new_name = author[0]   (likewise new_country)
keep_current(typed, current) == IF typed = "" THEN current ELSE typed

update_author_country(line) ==
    /\ pc = "update_author_country"
    /\ inp' = line
    /\ LET typed == strip(line)
           new_name == keep_current(frame.new_name, frame.author.name)
           new_country == keep_current(typed, frame.author.country)
       IN  IF cancel_operation(typed) THEN
               Return(<<"Operation cancelled.">>) /\ NoWrite
           ELSE
               commit_and_print(books, update_author(new_name, new_country, frame.book.authorID),
                                "Author information updated successfully.")
    /\ UNCHANGED entry

----------------------------------------------------------------------------
\* delete_book_or_author

delete_kind(line) ==
    /\ pc = "delete_kind"
    /\ inp' = line
    /\ LET choice == lower(strip(line))
       IN  IF cancel_operation(choice) THEN
               Return(<<"Operation cancelled.">>)
           ELSE IF choice = "" THEN
               Goto(pc, frame, <<"Input cannot be blank.">>)
           ELSE IF choice = "book" THEN
               Goto("delete_book_id", frame, <<>>)
           ELSE IF choice = "author" THEN
               Goto("delete_author_id", frame, <<>>)
           ELSE
               Goto(pc, frame, <<"Invalid option. Choose 'Book' or 'Author'.">>)
    /\ NoWrite
    /\ UNCHANGED entry

delete_book_id(line) ==
    /\ pc = "delete_book_id"
    /\ inp' = line
    /\ LET book_input == strip(line)
       IN  IF cancel_operation(book_input) THEN
               Return(<<"Operation cancelled.">>)
           ELSE IF book_input = "" THEN
               Goto(pc, frame, <<"Book ID is required.">>)
           ELSE IF ~four_digits(book_input) THEN
               Goto(pc, frame, <<"Book ID must be a 4-digit number.">>)
           ELSE IF int_raises(book_input) THEN
               Raise("ValueError")
           ELSE
               LET book_id == int(book_input)
               IN  \E book \in fetchone(select_book(book_id), NoBook) :
                       LET f == [frame EXCEPT !.book_id = book_id, !.book = book]
                       IN  IF book # NoBook THEN
                               Show("delete_book_confirm", f, <<"Book selected:">>, {book})
                           ELSE
                               Goto(pc, f, <<"No book found with that ID.">>)
    /\ NoWrite
    /\ UNCHANGED entry

delete_book_confirm(line) ==
    /\ pc = "delete_book_confirm"
    /\ inp' = line
    /\ LET confirm == lower(strip(line))
       IN  IF confirm = "yes" THEN
               commit_and_print(delete_book_row(frame.book_id), authors,
                                "Book deleted successfully.")
           ELSE IF confirm = "no" THEN
               Return(<<"Deletion cancelled.">>) /\ NoWrite
           ELSE
               Goto(pc, frame, <<"Please type 'yes' or 'no'.">>) /\ NoWrite
    /\ UNCHANGED entry

----------------------------------------------------------------------------
\* delete_author

\* The dependency query keyed on the book id instead of authorID.
has_books_by_id(author_id) == select_book(author_id) # {}
\* books = cursor.fetchall(); if books: the author still has books.
has_books(author_id) == select_books_of(author_id) # {}

delete_author_id(line) ==
    /\ pc = "delete_author_id"
    /\ inp' = line
    /\ LET author_id_input == strip(line)
       IN  IF cancel_operation(author_id_input) THEN
               Return(<<"Operation cancelled.">>)
           ELSE IF author_id_input = "" THEN
               Goto(pc, frame, <<"Author ID is required.">>)
           ELSE IF ~four_digits(author_id_input) THEN
               Goto(pc, frame, <<"Author ID must be a 4-digit number.">>)
           ELSE IF int_raises(author_id_input) THEN
               Raise("ValueError")
           ELSE
               LET author_id == int(author_id_input)
               IN  \E author \in fetchone(select_author(author_id), NoAuthor) :
                       LET f == [frame EXCEPT !.author_id = author_id, !.author = author]
                       IN  IF author = NoAuthor THEN
                               Goto(pc, f, <<"No author found with that ID. Try again.">>)
                           ELSE IF has_books(author_id) THEN
                               Return(<<"This author has books associated with them.",
                                        "Please delete those books first.">>)
                           ELSE
                               Show("delete_author_confirm", f, <<"Author selected:">>, {author})
    /\ NoWrite
    /\ UNCHANGED entry

delete_author_confirm(line) ==
    /\ pc = "delete_author_confirm"
    /\ inp' = line
    /\ LET confirm == lower(strip(line))
       IN  IF cancel_operation(confirm) THEN
               Return(<<"Operation cancelled.">>) /\ NoWrite
           ELSE IF confirm = "yes" THEN
               commit_and_print(books, delete_author_row(frame.author_id),
                                "Author deleted successfully.")
           ELSE IF confirm = "no" THEN
               Return(<<"Deletion cancelled.">>) /\ NoWrite
           ELSE
               Goto(pc, frame, <<"Please type 'yes' or 'no'.">>) /\ NoWrite
    /\ UNCHANGED entry

----------------------------------------------------------------------------
\* search_books

\* SQLite's LIKE: % matches any run of characters, _ any one character, and
\* ASCII letters match without regard to case.
RECURSIVE like_chars(_, _)
like_chars(t, p) ==
    IF p = <<>> THEN t = <<>>
    ELSE IF p[1] = "%" THEN
        \/ like_chars(t, Tail(p))
        \/ t # <<>> /\ like_chars(Tail(t), p)
    ELSE IF t = <<>> THEN FALSE
    ELSE /\ \/ p[1] = "_"
            \/ lower_char(p[1]) = lower_char(t[1])
         /\ like_chars(Tail(t), Tail(p))

like(value, pattern) == like_chars(chars(value), chars(pattern))

\* SELECT * FROM book WHERE title LIKE ?   with ? = f'%{title}%'
select_title_like(title_input) ==
    {b \in books : like(b.title, "%" \o title_input \o "%")}

search_by(line) ==
    /\ pc = "search_by"
    /\ inp' = line
    /\ LET by == lower(strip(line))
       IN  IF cancel_operation(by) THEN
               Return(<<"Operation cancelled.">>)
           ELSE IF by = "" THEN
               Goto(pc, frame, <<"Input cannot be blank.">>)
           ELSE IF by = "id" THEN
               Goto("search_id", frame, <<>>)
           ELSE IF by = "title" THEN
               Goto("search_title", frame, <<>>)
           ELSE
               Goto(pc, frame, <<"Invalid option. Please type 'id', 'title', or 'x'.">>)
    /\ NoWrite
    /\ UNCHANGED entry

search_id(line) ==
    /\ pc = "search_id"
    /\ inp' = line
    /\ LET book_input == strip(line)
       IN  IF cancel_operation(book_input) THEN
               Return(<<"Operation cancelled.">>)
           ELSE IF book_input = "" THEN
               Goto("search_by", frame, <<"Book ID is required.">>)
           ELSE IF ~four_digits(book_input) THEN
               Goto("search_by", frame, <<"Book ID must be a 4-digit number.">>)
           ELSE IF int_raises(book_input) THEN
               Raise("ValueError")
           ELSE
               LET book_id == int(book_input)
               IN  \E book \in fetchone(select_book(book_id), NoBook) :
                       IF book # NoBook THEN
                           Show("menu", NoFrame, <<"Book found:">>, {book})
                       ELSE
                           Goto("search_by", [frame EXCEPT !.book_id = book_id, !.book = book],
                                <<"No book found with that ID.">>)
    /\ NoWrite
    /\ UNCHANGED entry

search_title(line) ==
    /\ pc = "search_title"
    /\ inp' = line
    /\ LET title_input == strip(line)
           found == select_title_like(title_input)
       IN  IF cancel_operation(title_input) THEN
               Return(<<"Operation cancelled.">>)
           ELSE IF title_input = "" THEN
               Goto("search_by", frame, <<"Book title is required.">>)
           ELSE IF found # {} THEN
               Show("menu", NoFrame, <<"Books found:">>, found)
           ELSE
               Goto("search_by", [frame EXCEPT !.title = title_input],
                    <<"No books found matching that title.">>)
    /\ NoWrite
    /\ UNCHANGED entry

----------------------------------------------------------------------------
\* The program: every step reads one line at the prompt it is blocked in.

Next ==
    \/ \E line \in MenuLines : main_menu(line)
    \/ \E line \in KindLines : add_kind(line)
    \/ \E line \in BookIdLines : add_book_id(line)
    \/ \E line \in TitleLines : add_book_title(line)
    \/ \E line \in AuthorIdLines : add_book_author_id(line)
    \/ \E line \in QtyLines : add_book_qty(line)
    \/ \E line \in AuthorIdLines : add_author_id(line)
    \/ \E line \in NameLines : add_author_name(line)
    \/ \E line \in CountryLines : add_author_country(line)
    \/ \E line \in BookIdLines : update_book_id(line)
    \/ \E line \in FieldLines : update_choice(line)
    \/ \E line \in QtyLines : update_qty_step(line)
    \/ \E line \in TitleLines : update_title_step(line)
    \/ \E line \in AuthorIdLines : update_authorID_step(line)
    \/ \E line \in NameLines : update_author_name(line)
    \/ \E line \in CountryLines : update_author_country(line)
    \/ \E line \in KindLines : delete_kind(line)
    \/ \E line \in BookIdLines : delete_book_id(line)
    \/ \E line \in ConfirmLines : delete_book_confirm(line)
    \/ \E line \in AuthorIdLines : delete_author_id(line)
    \/ \E line \in ConfirmLines : delete_author_confirm(line)
    \/ \E line \in SearchByLines : search_by(line)
    \/ \E line \in BookIdLines : search_id(line)
    \/ \E line \in SearchTitleLines : search_title(line)

Spec == Init /\ [][Next]_vars

----------------------------------------------------------------------------
\* Starting the program again on the database file an earlier session left.

\* A row a session can add to the author table (id typed as 0000).
added_author == [id |-> 0, name |-> "X", country |-> "Peru"]

\* The stores a session can leave behind: any sample books deleted, sample
\* authors deleted once no book names them, and possibly an author added.
EarlierStores ==
    { [books |-> bs, authors |-> as \cup extra] :
        bs \in SUBSET book_data,
        as \in SUBSET author_data,
        extra \in {{}, {added_author}} }

EarlierStore(store) ==
    \A b \in store.books : \E a \in store.authors : a.id = b.authorID

\* The process of the earlier session has ended with "0" at the menu.
InitRestart ==
    \E store \in {st \in EarlierStores : EarlierStore(st)} :
        /\ books = store.books
        /\ authors = store.authors
        /\ pc = "exit"
        /\ frame = NoFrame
        /\ inp = "0"
        /\ out = <<"Goodbye!!!">>
        /\ shown = {}
        /\ commits = 0
        /\ entry = store

\* The order in which the two lists of insert_sample_data name their rows.
book_order == <<3001, 3002, 3003, 3004, 3005>>
author_order == <<1290, 8937, 2356, 6380, 5620>>

\* cursor.executemany(INSERT ...): one INSERT per row, in list order, inside
\* the open transaction; the first row whose id is present raises
\* IntegrityError and the rows before it stay inserted in the transaction.
RECURSIVE executemany(_, _, _, _)
executemany(table, data, order, i) ==
    IF i > Len(order) THEN [table |-> table, raised |-> FALSE]
    ELSE LET row == CHOOSE r \in data : r.id = order[i]
         IN  IF primary_key_violation(table, row.id)
             THEN [table |-> table, raised |-> TRUE]
             ELSE executemany(table \cup {row}, data, order, i + 1)

\* The transaction committed although the with block was left by an
\* exception.
connection_exit_commits(committed, pending, raised) == pending
\* with connect_db() as db: leaving the block by an exception rolls the
\* open transaction back.
connection_exit(committed, pending, raised) ==
    IF raised THEN committed ELSE pending

\* with connect_db() as db: create_tables(db); insert_sample_data(db);
\* main_menu(db).  CREATE TABLE IF NOT EXISTS keeps the tables; the two
\* executemany run in one transaction, committed by db.commit() after the
\* second.
insert_sample_data ==
    /\ pc \in {"exit", "crashed"}
    /\ inp' = ""
    /\ commits' = 0
    /\ LET book_insert == executemany(books, book_data, book_order, 1)
           author_insert == executemany(authors, author_data, author_order, 1)
       IN  IF book_insert.raised THEN
               /\ Raise("sqlite3.IntegrityError")
               /\ books' = connection_exit(books, book_insert.table, TRUE)
               /\ authors' = connection_exit(authors, authors, TRUE)
           ELSE IF author_insert.raised THEN
               /\ Goto("crashed", NoFrame, <<"Books added", "sqlite3.IntegrityError">>)
               /\ books' = connection_exit(books, book_insert.table, TRUE)
               /\ authors' = connection_exit(authors, author_insert.table, TRUE)
           ELSE
               /\ Goto("menu", NoFrame, <<"Books added", "Authors added">>)
               /\ books' = book_insert.table
               /\ authors' = author_insert.table
    /\ entry' = [books |-> books', authors |-> authors']

NextRestart ==
    \/ insert_sample_data
    \/ Next

SpecRestart == InitRestart /\ [][NextRestart]_vars

----------------------------------------------------------------------------
\* Vocabulary of the properties, independent of the code's own parsing.

\* The line is exactly four ASCII digits.
IsFourAsciiDigits(line) ==
    LET cs == chars(line)
    IN  Len(cs) = 4 /\ \A i \in 1..4 : cs[i] \in Range(AsciiDigits)

AsciiValue(c) == CHOOSE n \in 0..9 : AsciiDigits[n + 1] = c

\* The number a line of four ASCII digits writes in decimal.
DecimalValue(line) ==
    LET cs == chars(line)
    IN  1000 * AsciiValue(cs[1]) + 100 * AsciiValue(cs[2])
            + 10 * AsciiValue(cs[3]) + AsciiValue(cs[4])

BookIds == {b.id : b \in books}
AuthorIds == {a.id : a \in authors}
ReferencedAuthorIds == {b.authorID : b \in books}

YesLine == "yes"

InWorkflow == pc \notin {"menu", "exit", "crashed"}
TablesUnchanged == books' = books /\ authors' = authors

----------------------------------------------------------------------------
\* C1: in every reachable state every book names an author that is in the
\* author table.
C1_ReferentialInvariant ==
    \A b \in books : \E a \in authors : a.id = b.authorID

\* Book 3001 was moved to author 8937 and its former author 1290 deleted.
C1_Witness ==
    /\ \E b \in books : b.id = 3001 /\ b.authorID = 8937
    /\ 1290 \notin AuthorIds

\* C2: typing x or X at any prompt of any workflow returns to the menu with
\* both tables as they were when the workflow began.
C2_CancelAbortsEverywhere ==
    [][ (InWorkflow /\ inp' \in CancelLines)
          => /\ pc' = "menu"
             /\ books' = entry.books
             /\ authors' = entry.authors ]_vars

\* C3: delete-author given the id of an existing author that some book names
\* prints the dependency, deletes nothing, changes no row and returns to the
\* menu without reaching the confirmation prompt.
C3_DeleteAuthorGuard ==
    [][ ( /\ pc = "delete_author_id"
          /\ IsFourAsciiDigits(inp')
          /\ DecimalValue(inp') \in AuthorIds \cap ReferencedAuthorIds )
          => /\ out' = <<"This author has books associated with them.",
                         "Please delete those books first.">>
             /\ pc' = "menu"
             /\ TablesUnchanged
             /\ commits' = commits ]_vars

\* Delete-author was refused for author 1290, who still has a book.
C3_Witness ==
    /\ pc = "menu"
    /\ inp = "1290"
    /\ out = <<"This author has books associated with them.",
               "Please delete those books first.">>
    /\ 1290 \in AuthorIds \cap ReferencedAuthorIds

\* C4: every book row written names an author present at the moment of the
\* write, and at the author-id prompts of add-book and update-book a
\* well-formed id of no author is refused with a message, the same prompt
\* is issued again, and no row is written.
C4_AuthorMustExistAtWrite ==
    [][ /\ \A b \in books' \ books : b.authorID \in AuthorIds
        /\ ( /\ pc \in {"add_book_author_id", "update_authorID"}
             /\ IsFourAsciiDigits(inp')
             /\ DecimalValue(inp') \notin AuthorIds )
             => /\ pc' = pc
                /\ out' \in { <<"No author found with that ID. Please enter a valid author ID.">>,
                              <<"The author ID does not exist. Please enter an existing author ID.">> }
                /\ TablesUnchanged ]_vars

\* Book 3001 has been moved to author 8937, and a later add-book is held at
\* its author-id prompt after an id of no author was typed.
C4_Witness ==
    /\ pc = "add_book_author_id"
    /\ out = <<"No author found with that ID. Please enter a valid author ID.">>
    /\ frame.author_id \notin AuthorIds
    /\ \E b \in books : b.id = 3001 /\ b.authorID = 8937

\* A negative decimal numeral such as -5.
IsNegativeNumeral(line) ==
    LET cs == chars(line)
    IN  /\ Len(cs) > 1
        /\ cs[1] = "-"
        /\ \A i \in 2..Len(cs) : cs[i] \in Range(AsciiDigits)
        /\ \E i \in 2..Len(cs) : cs[i] # "0"

\* A line that is no number: it holds a letter or a point, and is not the
\* cancellation token.
IsNotNumeric(line) ==
    LET cs == chars(line)
    IN  /\ line \notin CancelLines
        /\ \E i \in 1..Len(cs) : is_cased(cs[i]) \/ cs[i] = "."

\* C5: no book ever has a negative quantity; a negative quantity typed in
\* add-book or update-book is refused with the negative-quantity message and
\* the prompt repeated with nothing written, and a non-numeric quantity gets
\* a different message.
C5_QuantityNonNegative ==
    /\ [](\A b \in books : b.qty >= 0)
    /\ [][ /\ ( pc \in {"add_book_qty", "update_qty"} /\ IsNegativeNumeral(inp') )
               => /\ out' = <<"Quantity cannot be negative.">>
                  /\ pc' = pc
                  /\ TablesUnchanged
           /\ ( pc \in {"add_book_qty", "update_qty"} /\ IsNotNumeric(inp') )
               => /\ out' \in { <<"Invalid input. Please enter a numeric quantity.">>,
                                <<"Invalid quantity. Please enter a number.">> }
                  /\ pc' = pc
                  /\ TablesUnchanged ]_vars

\* -5 was typed as the new quantity of book 3001 and refused.
C5_Witness ==
    /\ pc = "update_qty"
    /\ inp = "-5"
    /\ out = <<"Quantity cannot be negative.">>
    /\ frame.book_id = 3001

UniqueIds(table) == \A r1, r2 \in table : r1.id = r2.id => r1 = r2

\* C6: a well-formed id already in the table is refused at the id prompt of
\* add-book and of add-author with an "already exists" message and the
\* prompt repeated; no row is inserted under an id already present, ids stay
\* unique in each table, and the store never rejects an insert.
C6_DuplicateIdRejected ==
    /\ [](UniqueIds(books) /\ UniqueIds(authors))
    /\ [](out # <<"sqlite3.IntegrityError">>)
    /\ [][ /\ ( /\ pc = "add_book_id"
                /\ IsFourAsciiDigits(inp')
                /\ DecimalValue(inp') \in BookIds )
               => /\ out' = <<"A book with that ID already exists. Please enter a different ID.">>
                  /\ pc' = pc
                  /\ TablesUnchanged
           /\ ( /\ pc = "add_author_id"
                /\ IsFourAsciiDigits(inp')
                /\ DecimalValue(inp') \in AuthorIds )
               => /\ out' = <<"An author with that ID already exists. Try another.">>
                  /\ pc' = pc
                  /\ TablesUnchanged
           /\ pc = "add_book_qty" => \A b \in books' \ books : b.id \notin BookIds
           /\ pc = "add_author_country" => \A a \in authors' \ authors : a.id \notin AuthorIds
       ]_vars

\* The id of seeded book 3001 was typed as the id of a new book and refused.
C6_Witness ==
    /\ pc = "add_book_id"
    /\ inp = "3001"
    /\ out = <<"A book with that ID already exists. Please enter a different ID.">>
    /\ 3001 \in BookIds

\* The prompts that ask for a 4-digit id, and the messages they refuse with.
IdPrompts ==
    { "add_book_id", "add_book_author_id", "add_author_id", "update_book_id",
      "update_authorID", "delete_book_id", "delete_author_id", "search_id" }

IdFormatMessages ==
    { <<"Book ID must be a numeric value with exactly 4 digits.">>,
      <<"Author ID must be a numeric value with exactly 4 digits.">>,
      <<"Book ID must be a 4-digit number.">>,
      <<"Author ID must be a 4-digit number.">>,
      <<"Book ID is required.">>,
      <<"Author ID is required.">> }

\* C7: at every id prompt a line (surrounding blanks and the cancellation
\* token aside) that is not exactly four ASCII digits is refused with a
\* format message and a prompt issued again, the process still running and
\* no row written; a line of four ASCII digits is not refused for its format
\* and the id the code goes on with is its decimal value.
C7_FourDigitIdValidation ==
    [][ ( pc \in IdPrompts /\ ~cancel_operation(strip(inp')) )
          => IF IsFourAsciiDigits(strip(inp'))
             THEN /\ out' \notin IdFormatMessages
                  /\ pc' # "crashed"
                  /\ pc' # "menu" =>
                        DecimalValue(strip(inp')) \in {frame'.book_id, frame'.author_id}
             ELSE /\ out' \in IdFormatMessages
                  /\ pc' \in {pc, "search_by"}
                  /\ TablesUnchanged ]_vars

\* C8: every book id and every author id in the store is a positive integer
\* of exactly four decimal digits.
C8_FourDigitStoredIds ==
    \A id \in BookIds \cup AuthorIds : 1000 <= id /\ id <= 9999

\* C9: a blank book title in add-book, or a blank author name or country in
\* add-author, prints an empty-field message and asks for the same field
\* again; the workflow is not abandoned.
C9_BlankTextReprompts ==
    [][ ( /\ pc \in {"add_book_title", "add_author_name", "add_author_country"}
          /\ inp' \in BlankLines )
          => /\ pc' = pc
             /\ out' \in { <<"Book title is required.">>,
                           <<"Author name cannot be empty.">>,
                           <<"Author country cannot be empty.">> }
             /\ TablesUnchanged ]_vars

\* C10: delete-author of an author some book names is refused; delete-author
\* of an author no book names reaches the confirmation and "yes" there removes
\* that author; delete-book of an existing book always reaches its
\* confirmation and "yes" there removes that book.
C10_DeleteOrdering ==
    /\ [](pc = "delete_author_confirm" =>
            frame.author_id \in AuthorIds \ ReferencedAuthorIds)
    /\ [](pc = "delete_book_confirm" => frame.book_id \in BookIds)
    /\ [][ /\ ( /\ pc = "delete_author_id"
                /\ IsFourAsciiDigits(inp')
                /\ DecimalValue(inp') \in AuthorIds \cap ReferencedAuthorIds )
               => /\ pc' # "delete_author_confirm"
                  /\ authors' = authors
           /\ ( /\ pc = "delete_author_id"
                /\ IsFourAsciiDigits(inp')
                /\ DecimalValue(inp') \in AuthorIds \ ReferencedAuthorIds )
               => /\ pc' = "delete_author_confirm"
                  /\ frame'.author_id = DecimalValue(inp')
           /\ ( pc = "delete_author_confirm" /\ inp' = YesLine )
               => /\ frame.author_id \notin {a.id : a \in authors'}
                  /\ \A a \in authors : a.id # frame.author_id => a \in authors'
                  /\ books' = books
           /\ ( /\ pc = "delete_book_id"
                /\ IsFourAsciiDigits(inp')
                /\ DecimalValue(inp') \in BookIds )
               => /\ pc' = "delete_book_confirm"
                  /\ frame'.book_id = DecimalValue(inp')
           /\ ( pc = "delete_book_confirm" /\ inp' = YesLine )
               => /\ frame.book_id \notin {b.id : b \in books'}
                  /\ \A b \in books : b.id # frame.book_id => b \in books'
                  /\ authors' = authors
       ]_vars

\* Book 3001 was deleted, and then its author 1290.
C10_Witness ==
    /\ 3001 \notin BookIds
    /\ 1290 \notin AuthorIds
    /\ out = <<"Author deleted successfully.">>

\* The ids that a step takes out of a table.
RemovedBookIds == BookIds \ {b.id : b \in books'}
RemovedAuthorIds == AuthorIds \ {a.id : a \in authors'}

\* C11: a row leaves the store only on the step that answers "yes" at that
\* record's confirmation prompt, and that step removes the selected record
\* and nothing else; "no" at either confirmation ends the workflow with both
\* tables unchanged.
C11_DeleteNeedsConfirmation ==
    [][ /\ RemovedBookIds # {}
           => /\ pc = "delete_book_confirm"
              /\ lower(strip(inp')) = YesLine
              /\ books' = books \ {frame.book}
              /\ frame.book \in books
              /\ authors' = authors
        /\ RemovedAuthorIds # {}
           => /\ pc = "delete_author_confirm"
              /\ lower(strip(inp')) = YesLine
              /\ authors' = authors \ {frame.author}
              /\ frame.author \in authors
              /\ books' = books
        /\ ( /\ pc \in {"delete_book_confirm", "delete_author_confirm"}
             /\ lower(strip(inp')) = "no" )
           => /\ pc' = "menu"
              /\ out' = <<"Deletion cancelled.">>
              /\ TablesUnchanged
              /\ commits' = commits ]_vars

\* Book 3001 was deleted by answering "yes", and its author 1290 was then
\* kept by answering "no".
C11_Witness ==
    /\ pc = "menu"
    /\ out = <<"Deletion cancelled.">>
    /\ inp = "no"
    /\ 3001 \notin BookIds
    /\ 1290 \in AuthorIds \ ReferencedAuthorIds
    /\ commits = 1

\* C12: at "Delete this book?" a line that is none of yes, no, x (compared
\* in lower case after stripping) prints a message and the same prompt is
\* issued again with nothing written; yes deletes, no keeps and x cancels,
\* each of the three returning to the menu.
C12_DeleteBookConfirmLoop ==
    [][ pc = "delete_book_confirm"
          => LET confirm == lower(strip(inp'))
             IN  IF confirm \notin {"yes", "no", "x"}
                 THEN /\ pc' = pc
                      /\ frame' = frame
                      /\ out' = <<"Please type 'yes' or 'no'.">>
                      /\ TablesUnchanged
                 ELSE /\ pc' = "menu"
                      /\ confirm # "yes" => TablesUnchanged
                      /\ confirm = "yes" => frame.book_id \notin {b.id : b \in books'}
      ]_vars

\* The author row with the given id.
AuthorOf(table, id) == CHOOSE a \in table : a.id = id

\* C13: in update-book's "author" sub-choice, with neither line the cancel
\* token, the author of the selected book ends with the name typed, or its
\* previous name if the name line was blank, and the country typed, or its
\* previous country if the country line was blank; neither is ever stored
\* empty.
C13_BlankKeepsCurrent ==
    [][ /\ ( pc = "update_author_name" /\ ~cancel_operation(strip(inp')) )
           => /\ pc' = "update_author_country"
              /\ frame'.new_name = strip(inp')
              /\ TablesUnchanged
        /\ ( pc = "update_author_country" /\ ~cancel_operation(strip(inp')) )
           => LET id == frame.book.authorID
                  was == AuthorOf(authors, id)
                  now == AuthorOf(authors', id)
              IN  /\ id \in AuthorIds
                  /\ id \in {a.id : a \in authors'}
                  /\ now.name = IF frame.new_name = "" THEN was.name ELSE frame.new_name
                  /\ now.country = IF strip(inp') = "" THEN was.country ELSE strip(inp')
                  /\ now.name # ""
                  /\ now.country # ""
      ]_vars

\* Author 1290, named by book 3001, was renamed with the country line left
\* blank: the new name is stored and the country is the one it had.
C13_Witness ==
    /\ [id |-> 1290, name |-> "ann lee", country |-> "England"] \in authors
    /\ inp = ""
    /\ out = <<"Author information updated successfully.">>

\* What commit_and_print is called with.
SuccessMessages ==
    { <<"Book added successfully.">>,
      <<"Author added successfully.">>,
      <<"Quantity updated successfully.">>,
      <<"Title updated successfully.">>,
      <<"Book's author ID updated successfully.">>,
      <<"Author information updated successfully.">>,
      <<"Book deleted successfully.">>,
      <<"Author deleted successfully.">> }

\* C14: a table changes only on a step that commits; a committing step
\* belongs to a workflow that has written nothing before it, writes to one
\* table, commits once, prints a success message and returns to the menu,
\* so that a workflow issues at most one write.
C14_SingleMutationPerWorkflow ==
    [][ /\ (books' # books \/ authors' # authors) => commits' = commits + 1
        /\ commits' # commits
           => /\ commits' = commits + 1
              /\ InWorkflow
              /\ books = entry.books
              /\ authors = entry.authors
              /\ books' = books \/ authors' = authors
              /\ out' \in SuccessMessages
              /\ pc' = "menu"
      ]_vars

\* Two workflows have each written once: book 3001 was given quantity 7
\* and then title Dune.
C14_Witness ==
    /\ pc = "menu"
    /\ commits = 2
    /\ out = <<"Title updated successfully.">>
    /\ \E b \in books : b.id = 3001 /\ b.qty = 7 /\ b.title = "Dune"

\* The steps of the search workflow and of the view-all report.
ReadStep ==
    \/ pc \in {"search_by", "search_id", "search_title"}
    \/ pc = "menu" /\ strip(inp') \in {"4", "5"}

\* C15: no step of search or of view-all changes a table or commits, and a
\* search by a well-formed id prints the one record the store holds under
\* that id after the step, or reports that there is none, so that the same
\* lookup made again with no write in between gives the same result.
C15_ReadsDoNotWrite ==
    [][ /\ ReadStep => TablesUnchanged /\ commits' = commits
        /\ ( pc = "search_id" /\ IsFourAsciiDigits(strip(inp')) )
           => LET n == DecimalValue(strip(inp'))
                  held == {b \in books' : b.id = n}
              IN  IF held # {}
                  THEN out' = <<"Book found:">> /\ shown' = held
                  ELSE out' = <<"No book found with that ID.">> /\ shown' = {}
      ]_vars

\* Book 3001 was looked up by id after its quantity had been set to 7, and
\* the record printed is the one in the store.
C15_Witness ==
    /\ pc = "menu"
    /\ out = <<"Book found:">>
    /\ \E b \in shown : b.id = 3001 /\ b.qty = 7
    /\ shown \subseteq books
    /\ books = entry.books

\* The prompt each menu option starts at.
FirstPrompt(menu) ==
    CASE menu = "1" -> "add_kind"
      [] menu = "2" -> "update_book_id"
      [] menu = "3" -> "delete_kind"
      [] menu = "4" -> "search_by"
      [] menu = "5" -> "menu"
      [] menu = "0" -> "exit"
      [] OTHER -> "menu"

\* The menu is no longer read: the process has ended.
LoopEnded == pc \in {"exit", "crashed"}

\* C16: at the menu 1 to 5 start their workflow (5, the report, comes
\* straight back to the menu), any line other than 0 to 5 prints "Invalid
\* option." and shows the menu again with the store unchanged, and the menu
\* loop ends only on the step that reads 0 at the menu.
C16_MenuLoop ==
    [][ /\ pc = "menu"
           => /\ pc' = FirstPrompt(strip(inp'))
              /\ TablesUnchanged
              /\ strip(inp') \notin {"0", "1", "2", "3", "4", "5"}
                    => out' = <<"Invalid option.">>
        /\ LoopEnded'
           => /\ pc = "menu"
              /\ strip(inp') = "0"
              /\ pc' = "exit"
      ]_vars

\* The ids of the sample set.
SampleBookIds == {row.id : row \in book_data}
SampleAuthorIds == {row.id : row \in author_data}
SampleIdPresent == BookIds \cap SampleBookIds # {} \/ AuthorIds \cap SampleAuthorIds # {}

\* A start of the program: the step taken when no process is running.
Start == pc \in {"exit", "crashed"}

\* C17 as stated: every start on a database file an earlier session left
\* ends in a primary-key violation and does not reach the menu.
C17_RestartAlwaysFails ==
    [][ Start => /\ pc' = "crashed"
                 /\ out'[Len(out')] = "sqlite3.IntegrityError" ]_vars

\* C17 amended: a start on a store that still holds one of the ten sample
\* ids ends in a primary-key violation with the store unchanged and the
\* menu not reached; a start on a store holding none of them inserts the
\* sample set, keeps the other rows and reaches the menu.
C17_RestartFailsWhileSampleIdPresent ==
    [][ Start => IF SampleIdPresent
                 THEN /\ pc' = "crashed"
                      /\ out'[Len(out')] = "sqlite3.IntegrityError"
                      /\ TablesUnchanged
                 ELSE /\ pc' = "menu"
                      /\ out' = <<"Books added", "Authors added">>
                      /\ books' = books \cup book_data
                      /\ authors' = authors \cup author_data ]_vars

\* The start failed on a store from which book 3001 had been deleted: the
\* violation is raised by a later row of the sample set.
C17_Witness ==
    /\ pc = "crashed"
    /\ out = <<"sqlite3.IntegrityError">>
    /\ 3001 \notin BookIds
    /\ 3002 \in BookIds

\* The book row with the given id.
BookOf(table, id) == CHOOSE b \in table : b.id = id

\* The prompts of update-book's qty, title and authorID sub-choices.
FieldPrompts == {"update_qty", "update_title", "update_authorID"}

\* C18: a step of update-book's qty, title or authorID sub-choice leaves
\* every author, every other book and the selected book's id as they were,
\* and changes of the selected book at most the one field of the sub-choice;
\* the title written is the title typed.
C18_UpdateIsFieldLocal ==
    [][ (pc \in FieldPrompts)
          => /\ frame.book_id \in BookIds
             /\ authors' = authors
             /\ {b.id : b \in books'} = BookIds
             /\ \A b \in books : b.id # frame.book_id => b \in books'
             /\ LET was == BookOf(books, frame.book_id)
                    now == BookOf(books', frame.book_id)
                IN  /\ pc # "update_qty" => now.qty = was.qty
                    /\ pc # "update_title" => now.title = was.title
                    /\ pc # "update_authorID" => now.authorID = was.authorID
                    /\ (pc = "update_title" /\ commits' # commits)
                          => now.title = strip(inp')
      ]_vars

\* Book 3001 was given quantity 7: nothing else in the store differs from
\* the sample set.
C18_Witness ==
    /\ out = <<"Quantity updated successfully.">>
    /\ authors = author_data
    /\ \E b \in book_data :
          /\ b.id = 3001
          /\ books = (book_data \ {b}) \cup {[b EXCEPT !.qty = 7]}

\* The prompts of the update-book workflow.
UpdatePrompts ==
    FieldPrompts \cup
    {"update_book_id", "update_choice", "update_author_name", "update_author_country"}

\* C19: a step of update-book's "author" sub-choice leaves every book, the
\* set of author ids and every author other than the one the selected book
\* names as they were, so that it changes at most that author's name and
\* country; no step of update-book changes the ids held by either table,
\* and no step of any workflow takes an id out of a table while putting
\* another in.
C19_AuthorUpdateScope ==
    [][ /\ (pc \in {"update_author_name", "update_author_country"})
           => /\ frame.book_id \in BookIds
              /\ frame.book.authorID = BookOf(books, frame.book_id).authorID
              /\ books' = books
              /\ {a.id : a \in authors'} = AuthorIds
              /\ \A a \in authors : a.id # frame.book.authorID => a \in authors'
        /\ (pc \in UpdatePrompts)
           => /\ {b.id : b \in books'} = BookIds
              /\ {a.id : a \in authors'} = AuthorIds
        /\ RemovedBookIds = {} \/ {b.id : b \in books'} \subseteq BookIds
        /\ RemovedAuthorIds = {} \/ {a.id : a \in authors'} \subseteq AuthorIds
      ]_vars

\* The author of book 3001 was given a new name and a new country: nothing
\* else in the store differs from the sample set.
C19_Witness ==
    /\ out = <<"Author information updated successfully.">>
    /\ books = book_data
    /\ \E a \in author_data :
          /\ a.id = 1290
          /\ authors = (author_data \ {a})
                          \cup {[id |-> 1290, name |-> "ann lee", country |-> "peru"]}

\* A text that is empty or holds nothing but whitespace.
BlankChars == {" ", "\\u00a0"}
IsBlankText(s) == \A i \in 1..Len(chars(s)) : chars(s)[i] \in BlankChars

\* C20: in every reachable state every book has a title, and every author a
\* name and a country, that is neither empty nor whitespace only.
C20_NonEmptyText ==
    /\ \A b \in books : ~IsBlankText(b.title)
    /\ \A a \in authors : ~IsBlankText(a.name) /\ ~IsBlankText(a.country)

\* A book and an author added by the user are in the store with the title,
\* name and country typed.
C20_Witness ==
    /\ \E b \in books : b.id = 12 /\ b.title = "Dune"
    /\ \E a \in authors : a.id = 0 /\ a.name = "Ann Lee" /\ a.country = "Peru"

\* The sub-flow each field name enters.
SubFlow(field) ==
    CASE field \in {"", "qty"} -> "update_qty"
      [] field = "title" -> "update_title"
      [] field = "authorid" -> "update_authorID"
      [] field = "author" -> "update_author_name"
      [] OTHER -> "update_choice"

\* C21: at update-book's field prompt a blank line is taken as qty; qty,
\* title, authorid and author, in any case, enter their sub-flow; any other
\* line that is not the cancellation token prints the invalid-field message
\* and the field prompt is issued again; in each case the store is
\* unchanged and the selected book is still the one to update.
C21_UpdateFieldSelection ==
    [][ ( pc = "update_choice" /\ ~cancel_operation(strip(inp')) )
          => LET field == lower(strip(inp'))
             IN  /\ pc' = SubFlow(field)
                 /\ TablesUnchanged
                 /\ commits' = commits
                 /\ frame'.book_id = frame.book_id
                 /\ frame'.book = frame.book
                 /\ frame.book \in books
                 /\ field \notin {"", "qty", "title", "authorid", "author"}
                       => out' = <<"Invalid field. Please choose from: qty, title, authorID, or author.">>
      ]_vars

\* A blank line at the field prompt of book 3001 led to the quantity prompt.
C21_Witness ==
    /\ pc = "update_qty"
    /\ inp \in BlankLines
    /\ frame.book_id = 3001
    /\ out = <<>>

\* The text holds the term as a run of consecutive characters, ASCII
\* letters compared without regard to case.
Contains(value, term) ==
    LET v == chars(lower(value))
        t == chars(lower(term))
    IN  \E i \in 0..(Len(v) - Len(t)) : SubSeq(v, i + 1, i + Len(t)) = t

\* C22: a search by a well-formed id prints at most one record, the book of
\* that id if there is one; a search by title with a term that is neither
\* blank nor the cancellation token prints exactly the books whose title
\* contains the term, whatever characters the term holds.
C22_SearchResults ==
    [][ /\ ( pc = "search_id" /\ IsFourAsciiDigits(strip(inp')) )
           => /\ Cardinality(shown') <= 1
              /\ shown' = {b \in books : b.id = DecimalValue(strip(inp'))}
        /\ ( /\ pc = "search_title"
             /\ strip(inp') # ""
             /\ ~cancel_operation(strip(inp')) )
           => shown' = {b \in books : Contains(b.title, strip(inp'))}
      ]_vars

\* C23: the view-all report prints, for each book in the store, exactly one
\* row, made of that book and the author it names, and prints no other
\* row.
C23_ViewAllComplete ==
    [][ ( pc = "menu" /\ strip(inp') = "5" )
          => /\ out' = <<"Details">>
             /\ \A b \in books : Cardinality({r \in shown' : r.book = b}) = 1
             /\ \A r \in shown' : r.book \in books
                                   /\ r.author \in authors
                                   /\ r.author.id = r.book.authorID
             /\ Cardinality(shown') = Cardinality(books)
      ]_vars

\* The report was printed after book 12 had been added and book 3001 moved
\* to author 8937: six rows, one for each book.
C23_Witness ==
    /\ pc = "menu"
    /\ inp = "5"
    /\ out = <<"Details">>
    /\ Cardinality(shown) = 6
    /\ \E r \in shown : r.book.id = 12 /\ r.author.id \in AuthorIds
    /\ \E r \in shown : r.book.id = 3001 /\ r.author.id = 8937

\* C24: a start that ends in a primary-key violation leaves both tables as
\* they were before it, whichever sample row raised the violation and
\* however many sample rows had been inserted before it; every book in the
\* store therefore still names an author in the store at the next start.
C24_FailedSeedingIsAtomic ==
    /\ [][ (Start /\ pc' = "crashed") => TablesUnchanged ]_vars
    /\ [](\A b \in books : b.authorID \in AuthorIds)

\* A start failed on the author insert after all five sample books had
\* been inserted in the transaction: no book is in the store.
C24_Witness ==
    /\ pc = "crashed"
    /\ out = <<"Books added", "sqlite3.IntegrityError">>
    /\ books = {}
    /\ 1290 \in AuthorIds

====
